---- MODULE Spec2Model ----
(***************************************************************************)
(* Model of luni/src/main/native/java_util_zip_Deflater.cpp: the JNI       *)
(* adapter between java.util.zip.Deflater and the zlib deflate engine.     *)
(*                                                                         *)
(* State: the native heap of NativeZipStream contexts (one z_stream each), *)
(* the two fields of the Java object the adapter reads and writes          *)
(* ("finished", "inRead"), and the outcome of the last native call.        *)
(* The zlib engine is modelled by its control flow on byte counts: which   *)
(* status it returns, how many bytes it consumes and produces.  Output     *)
(* sizes use a stored-block scale: one byte of header, one byte per block  *)
(* plus the block's input bytes, one byte of flush marker, one of trailer. *)
(***************************************************************************)
EXTENDS Integers, FiniteSets, Sequences, TLC

\* ------------------------------------------------------------------ bounds
MaxLen       == 2   \* longest input slice bound by setInput
MaxOutLen    == 4   \* longest output region given to deflate
MaxRead      == 2   \* cap on the bytes fed to one Java object
MaxTotalOut  == 5   \* cap on the bytes one stream produces between resets
MaxWrites    == 2   \* saturation of the count of writes of "finished"
MaxDict      == 1   \* cap on the dictionary bytes one stream takes between resets
NumAddrs     == 2   \* addresses the allocator hands out under SpecHeap
HeapLen      == 1   \* longest input slice and output region under SpecHeap

Addrs        == 1..NumAddrs

\* Input bytes the engine buffers before it emits a block on its own: as with
\* zlib's 32K window, more than one Java object is ever fed here.
WinCap       == MaxRead + 1

\* ------------------------------------------------------- values and inputs
Sentinel     == -1                       \* "return -1"
Levels       == {0, 6, 10}               \* 10 is outside zlib's 0..9
Strategies   == {0, 5}                   \* 5 is outside zlib's 0..Z_FIXED
FlushModes   == {"Z_NO_FLUSH", "Z_SYNC_FLUSH", "Z_FULL_FLUSH", "Z_FINISH"}
EngineFlush  == FlushModes \cup {"Z_PARTIAL_FLUSH", "Z_BLOCK"}
InOffs       == {1}
OutOffs      == {1}

Min(a, b)    == IF a < b THEN a ELSE b
Abs(a)       == IF a < 0 THEN -a ELSE a

\* Pointers: a base (which buffer) and a position in it.
NULL         == [base |-> "null", pos |-> 0]
Ptr(b, p)    == [base |-> b, pos |-> p]
PtrAdd(q, n) == [q EXCEPT !.pos = @ + n]
PtrDiff(q, p) == q.pos - p.pos

\* zlib.h: the values of the flush constants.
FlushCode(f) ==
    CASE f = "Z_NO_FLUSH"      -> 0
      [] f = "Z_PARTIAL_FLUSH" -> 1
      [] f = "Z_SYNC_FLUSH"    -> 2
      [] f = "Z_FULL_FLUSH"    -> 3
      [] f = "Z_FINISH"        -> 4
      [] OTHER                 -> 5

\* deflate.c: "#define RANK(f) (((f) * 2) - ((f) > 4 ? 9 : 0))", the order in
\* which deflate() compares flush values; Z_BLOCK ranks right above
\* Z_NO_FLUSH, and the two markers -1 and -2 of last_flush rank below it.
RANK(f) == (f * 2) - (IF f > 4 THEN 9 ELSE 0)

\* configuration_table[level].func
ConfigFunc(level) ==
    IF level = 0 THEN "deflate_stored"
    ELSE IF level <= 3 THEN "deflate_fast" ELSE "deflate_slow"

\* adler32(adler, buf, len) over len bytes of value 1.
RECURSIVE adler32(_, _)
adler32(adler, len) ==
    IF len = 0 THEN adler
    ELSE LET a == ((adler % 65536) + 1) % 65521
             b == ((adler \div 65536) + a) % 65521
         IN adler32(b * 65536 + a, len - 1)

\* --------------------------------------------------------- NativeZipStream
\* The context after "new NativeZipStream": a zeroed z_stream, no engine
\* state yet.
NewNativeZipStream ==
    [next_in |-> NULL, avail_in |-> 0, total_in |-> 0,
     next_out |-> NULL, avail_out |-> 0, total_out |-> 0,
     adler |-> 0,
     status |-> "NO_STATE", wrap |-> 0, level |-> 0, strategy |-> 0,
     pending |-> 0, held |-> 0, last_flush |-> 0]

\* ------------------------------------------------------------ zlib engine
\* deflateReset on a stream whose state is consistent; last_flush = -2 marks
\* a stream on which deflate() has not been called since.
deflateResetKeep(s) ==
    [s EXCEPT !.total_in = 0, !.total_out = 0, !.pending = 0, !.held = 0,
              !.wrap = Abs(s.wrap),
              !.status = IF s.wrap # 0 THEN "INIT_STATE" ELSE "BUSY_STATE",
              !.adler = adler32(1, 0),
              !.last_flush = -2]

deflateReset(s) ==
    IF s.status = "NO_STATE" THEN [s |-> s, err |-> "Z_STREAM_ERROR"]
    ELSE [s |-> deflateResetKeep(s), err |-> "Z_OK"]

deflateInit2(s, level, windowBits, memLevel, strategy) ==
    LET lv == IF level = -1 THEN 6 ELSE level
        wb == Abs(windowBits)
    IN IF memLevel < 1 \/ memLevel > 9 \/ wb < 8 \/ wb > 15
          \/ lv < 0 \/ lv > 9 \/ strategy < 0 \/ strategy > 4
       THEN [s |-> s, err |-> "Z_STREAM_ERROR"]
       ELSE [s |-> deflateResetKeep([s EXCEPT !.wrap = IF windowBits < 0 THEN 0 ELSE 1,
                                          !.level = lv, !.strategy = strategy]),
             err |-> "Z_OK"]

flush_pending(s) ==
    LET n == Min(s.pending, s.avail_out)
    IN [s EXCEPT !.next_out = PtrAdd(@, n), !.total_out = @ + n,
                 !.avail_out = @ - n, !.pending = @ - n]

read_buf(s, n) ==
    [s EXCEPT !.next_in = IF n = 0 THEN @ ELSE PtrAdd(@, n),
              !.avail_in = @ - n, !.total_in = @ + n, !.held = @ + n,
              !.adler = IF s.wrap = 1 THEN adler32(@, n) ELSE @]

\* FLUSH_BLOCK_ONLY: the buffered input becomes one block of output.
FLUSH_BLOCK_ONLY(s) ==
    flush_pending([s EXCEPT !.pending = @ + 1 + s.held, !.held = 0])

\* The block function: read input into the window, emit a block whenever the
\* window is full, stop when the output region is full.
RECURSIVE deflate_block(_, _)
deflate_block(s, flush) ==
    LET s1 == read_buf(s, Min(s.avail_in, WinCap - s.held))
    IN IF s1.held >= WinCap
       THEN LET s2 == FLUSH_BLOCK_ONLY(s1)
            IN IF s2.avail_out = 0
               THEN [s |-> s2, bstate |-> "need_more"]
               ELSE deflate_block(s2, flush)
       ELSE IF flush = "Z_NO_FLUSH"
       THEN [s |-> s1, bstate |-> "need_more"]
       ELSE LET s2 == FLUSH_BLOCK_ONLY(s1)
            IN IF s2.avail_out = 0
               THEN [s |-> s2,
                     bstate |-> IF flush = "Z_FINISH" THEN "finish_started" ELSE "need_more"]
               ELSE [s |-> s2,
                     bstate |-> IF flush = "Z_FINISH" THEN "finish_done" ELSE "block_done"]

MarkFull(s) == IF s.avail_out = 0 THEN [s EXCEPT !.last_flush = -1] ELSE s

\* deflate(), after the block function: the tail that writes the trailer.
deflate_tail(s, flush) ==
    IF flush # "Z_FINISH" THEN [s |-> s, err |-> "Z_OK"]
    ELSE IF s.wrap <= 0 THEN [s |-> s, err |-> "Z_STREAM_END"]
    ELSE LET s1 == flush_pending([s EXCEPT !.pending = @ + 1])
             s2 == [s1 EXCEPT !.wrap = -s1.wrap]
         IN [s |-> s2, err |-> IF s2.pending # 0 THEN "Z_OK" ELSE "Z_STREAM_END"]

\* deflate(), on the result r of the block function.
deflate_bstate(r, flush) ==
    LET s1 == IF r.bstate \in {"finish_started", "finish_done"}
              THEN [r.s EXCEPT !.status = "FINISH_STATE"] ELSE r.s
    IN IF r.bstate \in {"need_more", "finish_started"}
       THEN [s |-> MarkFull(s1), err |-> "Z_OK"]
       ELSE IF r.bstate = "block_done"
       THEN LET s2 == flush_pending([s1 EXCEPT
                                        !.pending = IF flush = "Z_BLOCK" THEN @ ELSE @ + 1])
            IN IF s2.avail_out = 0
               THEN [s |-> MarkFull(s2), err |-> "Z_OK"]
               ELSE deflate_tail(s2, flush)
       ELSE deflate_tail(s1, flush)

\* s->lookahead: the input read into the window that the block function has
\* not processed yet.  deflate_stored leaves none; the other block functions
\* leave what they read under Z_NO_FLUSH and did not emit.
lookahead(s) == IF ConfigFunc(s.level) = "deflate_stored" THEN 0 ELSE s.held

\* deflate(), once the header and the pending output are written.
deflate_run(s, flush) ==
    IF s.avail_in # 0 \/ lookahead(s) # 0
       \/ (flush # "Z_NO_FLUSH" /\ s.status # "FINISH_STATE")
    THEN deflate_bstate(deflate_block(s, flush), flush)
    ELSE deflate_tail(s, flush)

deflate(s, flush) ==
    IF flush \notin EngineFlush \/ s.status = "NO_STATE"
    THEN [s |-> s, err |-> "Z_STREAM_ERROR"]
    ELSE IF s.next_out = NULL \/ (s.next_in = NULL /\ s.avail_in # 0)
            \/ (s.status = "FINISH_STATE" /\ flush # "Z_FINISH")
    THEN [s |-> s, err |-> "Z_STREAM_ERROR"]
    ELSE IF s.avail_out = 0 THEN [s |-> s, err |-> "Z_BUF_ERROR"]
    ELSE LET old_flush == s.last_flush
             s1 == [s EXCEPT !.last_flush = FlushCode(flush)]
             \* write the header
             s2 == IF s1.status = "INIT_STATE"
                   THEN [s1 EXCEPT !.status = "BUSY_STATE", !.pending = @ + 1,
                                   !.adler = adler32(1, 0)]
                   ELSE s1
         IN IF s2.pending # 0
            THEN LET s3 == flush_pending(s2)
                 IN IF s3.avail_out = 0
                    THEN [s |-> [s3 EXCEPT !.last_flush = -1], err |-> "Z_OK"]
                    ELSE IF s3.status = "FINISH_STATE" /\ s3.avail_in # 0
                    THEN [s |-> s3, err |-> "Z_BUF_ERROR"]
                    ELSE deflate_run(s3, flush)
            ELSE IF s2.avail_in = 0 /\ RANK(FlushCode(flush)) <= RANK(old_flush)
                    /\ flush # "Z_FINISH"
            THEN [s |-> s2, err |-> "Z_BUF_ERROR"]
            ELSE IF s2.status = "FINISH_STATE" /\ s2.avail_in # 0
            THEN [s |-> s2, err |-> "Z_BUF_ERROR"]
            ELSE deflate_run(s2, flush)

\* deflateParams, on the result r of its "deflate(strm, Z_BLOCK)": the
\* parameters are changed only when that call was accepted and left nothing
\* behind.
deflateParams_flushed(r, lv, strategy) ==
    IF r.err = "Z_STREAM_ERROR" THEN [s |-> r.s, err |-> "Z_STREAM_ERROR"]
    ELSE IF r.s.avail_in # 0 \/ r.s.held # 0 THEN [s |-> r.s, err |-> "Z_BUF_ERROR"]
    ELSE [s |-> [r.s EXCEPT !.level = lv, !.strategy = strategy], err |-> "Z_OK"]

\* deflateParams: a change of strategy or of block function flushes the last
\* block first, unless deflate() has not been called since the last reset.
deflateParams(s, level, strategy) ==
    LET lv == IF level = -1 THEN 6 ELSE level
    IN IF s.status = "NO_STATE" \/ lv < 0 \/ lv > 9 \/ strategy < 0 \/ strategy > 4
       THEN [s |-> s, err |-> "Z_STREAM_ERROR"]
       ELSE IF (strategy # s.strategy \/ ConfigFunc(lv) # ConfigFunc(s.level))
               /\ s.last_flush # -2
       THEN deflateParams_flushed(deflate(s, "Z_BLOCK"), lv, strategy)
       ELSE [s |-> [s EXCEPT !.level = lv, !.strategy = strategy], err |-> "Z_OK"]

\* deflateSetDictionary: the dictionary goes through the window like input
\* (fill_window, read_buf), so total_in grows by its length; the checksum
\* takes it only under the zlib wrapper; the window then starts a new block
\* after the dictionary (block_start = strstart).
deflateSetDictionary(s, dictLength) ==
    IF s.status = "NO_STATE" \/ (s.wrap = 1 /\ s.status # "INIT_STATE")
       \/ lookahead(s) # 0
    THEN [s |-> s, err |-> "Z_STREAM_ERROR"]
    ELSE [s |-> [s EXCEPT !.adler = IF s.wrap = 1 THEN adler32(@, dictLength) ELSE @,
                          !.total_in = @ + dictLength,
                          !.held = 0],
          err |-> "Z_OK"]

deflateEnd(s) == [s EXCEPT !.status = "NO_STATE", !.pending = 0, !.held = 0]


\* ----------------------------------------------------------------- state
VARIABLES
    allocated,   \* addresses holding a NativeZipStream that was not deleted
    ctx,         \* address -> the NativeZipStream stored there
    recv,        \* address -> the Java Deflater object that owns the handle
    live,        \* handles createStream returned and endImpl has not yet taken
    last,        \* the outcome of the last native call and, for deflate, the
                 \* flush mode it handed to the engine
    consumed,    \* address -> bytes the engine consumed over all deflate calls
    trueWrites,  \* address -> writes of JNI_TRUE to "finished", saturating
    ended,       \* address -> the engine returned Z_STREAM_END since its last reset
    returned,    \* address -> sum of the values deflate returned, the error
                 \* sentinel left out, since the stream's create or last reset
    dictBytes    \* address -> dictionary bytes the engine accepted since the
                 \* stream's create or last reset

vars == <<allocated, ctx, recv, live, last, consumed, trueWrites, ended, returned,
          dictBytes>>

DEF_WBITS     == 15
DEF_MEM_LEVEL == 8

\* The Java object right after its constructor: both fields at their defaults.
NewDeflater == [finished |-> FALSE, inRead |-> 0]

Outcome(op, h, ret, exc, err, flush) ==
    [op |-> op, handle |-> h, ret |-> ret, exc |-> exc, err |-> err, flush |-> flush]

\* throwExceptionForZlibError(env, exceptionClassName, error)
throwExceptionForZlibError(exceptionClassName, err) == exceptionClassName

\* "if (err != Z_OK) { throwExceptionForZlibError(env, cls, err); }" on the
\* result r of an engine call.
throwUnlessOk(r, exceptionClassName) ==
    [s |-> r.s, err |-> r.err,
     exc |-> IF r.err # "Z_OK"
             THEN throwExceptionForZlibError(exceptionClassName, r.err)
             ELSE "none"]

\* -------------------------------------------------------------- handlers
\* Each handler is an operator from the state it touches to the state it
\* leaves and what it returns; the action below it applies it to one handle.

\* Deflater_createStream.  "kept" tells whether the context allocated at
\* address a is still allocated at return (UniquePtr::release) or was deleted
\* by the UniquePtr destructor.
\* Mutant: a raw pointer instead of UniquePtr, so the error return leaks.
createStream_Leak(a, level, strategy, noHeader, allocOk) ==
    IF ~allocOk
    THEN [kept |-> FALSE, s |-> NewNativeZipStream, ret |-> Sentinel,
          exc |-> "java/lang/OutOfMemoryError", err |-> "none"]
    ELSE LET windowBits == IF noHeader THEN -DEF_WBITS ELSE DEF_WBITS
             memLevel == DEF_MEM_LEVEL
             r == deflateInit2(NewNativeZipStream, level, windowBits, memLevel, strategy)
         IN IF r.err # "Z_OK"
            THEN [kept |-> TRUE, s |-> r.s, ret |-> Sentinel,
                  exc |-> "java/lang/IllegalArgumentException", err |-> r.err]
            ELSE [kept |-> TRUE, s |-> r.s, ret |-> a, exc |-> "none", err |-> r.err]

\* Mutant: the result of deflateInit2 is not checked.
createStream_Unchecked(a, level, strategy, noHeader, allocOk) ==
    IF ~allocOk
    THEN [kept |-> FALSE, s |-> NewNativeZipStream, ret |-> Sentinel,
          exc |-> "java/lang/OutOfMemoryError", err |-> "none"]
    ELSE LET windowBits == IF noHeader THEN -DEF_WBITS ELSE DEF_WBITS
             memLevel == DEF_MEM_LEVEL
             r == deflateInit2(NewNativeZipStream, level, windowBits, memLevel, strategy)
         IN [kept |-> TRUE, s |-> r.s, ret |-> a, exc |-> "none", err |-> r.err]

\* Deflater_createStream (the handler's own name is the action's, below).
createStream(a, level, strategy, noHeader, allocOk) ==
    IF ~allocOk
    THEN [kept |-> FALSE, s |-> NewNativeZipStream, ret |-> Sentinel,
          exc |-> "java/lang/OutOfMemoryError", err |-> "none"]
    ELSE LET windowBits == IF noHeader THEN -DEF_WBITS ELSE DEF_WBITS
             memLevel == DEF_MEM_LEVEL
             r == deflateInit2(NewNativeZipStream, level, windowBits, memLevel, strategy)
         IN IF r.err # "Z_OK"
            THEN [kept |-> FALSE, s |-> NewNativeZipStream, ret |-> Sentinel,
                  exc |-> throwExceptionForZlibError("java/lang/IllegalArgumentException", r.err),
                  err |-> r.err]
            ELSE [kept |-> TRUE, s |-> r.s, ret |-> a, exc |-> "none", err |-> r.err]

\* NativeZipStream::setInput
setInput(s, off, len) ==
    [s EXCEPT !.next_in = Ptr("in", off), !.avail_in = len]

\* NativeZipStream::setDictionary with inflate = false
setDictionary(s, len) ==
    throwUnlessOk(deflateSetDictionary(s, len), "java/lang/IllegalArgumentException")

\* Variants of the switch of Deflater_deflateImpl, used by the mutants below:
\* "fatal" are the statuses that take the default branch, "finish" those
\* that set the finished flag, "clear" tells whether the flag is written on
\* every call, "skip" the statuses that return before inRead is updated,
\* "cumulative" whether total_out is returned instead of the difference.
deflateSwitch(r, obj, initialNextIn, initialNextOut, fatal, finish, clear, skip, cumulative) ==
    IF r.err \in fatal
    THEN [s |-> r.s, obj |-> obj, ret |-> Sentinel,
          exc |-> throwExceptionForZlibError("java/util/zip/DataFormatException", r.err),
          err |-> r.err, wrote |-> FALSE]
    ELSE LET bytesRead    == PtrDiff(r.s.next_in, initialNextIn)
             bytesWritten == PtrDiff(r.s.next_out, initialNextOut)
             obj1 == IF r.err \in finish THEN [obj EXCEPT !.finished = TRUE]
                     ELSE IF clear THEN [obj EXCEPT !.finished = FALSE] ELSE obj
         IN [s |-> r.s,
             obj |-> IF r.err \in skip THEN obj1 ELSE [obj1 EXCEPT !.inRead = @ + bytesRead],
             ret |-> IF cumulative THEN r.s.total_out ELSE bytesWritten,
             exc |-> "none", err |-> r.err, wrote |-> (r.err \in finish)]

ZErrors == {"Z_STREAM_ERROR", "Z_DATA_ERROR", "Z_MEM_ERROR", "Z_VERSION_ERROR",
            "Z_ERRNO", "Z_NEED_DICT"}

\* Mutant: no "case Z_BUF_ERROR", so it takes the default branch.
deflateImpl_switch_BufErrFatal(r, obj, initialNextIn, initialNextOut) ==
    deflateSwitch(r, obj, initialNextIn, initialNextOut,
                  ZErrors \cup {"Z_BUF_ERROR"}, {"Z_STREAM_END"}, FALSE, {}, FALSE)

\* Mutant: "case Z_STREAM_END" returns bytesWritten at once, before inRead.
deflateImpl_switch_EndSkipsInRead(r, obj, initialNextIn, initialNextOut) ==
    deflateSwitch(r, obj, initialNextIn, initialNextOut,
                  ZErrors, {"Z_STREAM_END"}, FALSE, {"Z_STREAM_END"}, FALSE)

\* Mutant: "case Z_OK" falls through into "case Z_STREAM_END".
deflateImpl_switch_OkFallsThrough(r, obj, initialNextIn, initialNextOut) ==
    deflateSwitch(r, obj, initialNextIn, initialNextOut,
                  ZErrors, {"Z_OK", "Z_STREAM_END"}, FALSE, {}, FALSE)

\* Mutant: returns stream.total_out instead of the bytes written by this call.
deflateImpl_switch_ReturnsTotalOut(r, obj, initialNextIn, initialNextOut) ==
    deflateSwitch(r, obj, initialNextIn, initialNextOut,
                  ZErrors, {"Z_STREAM_END"}, FALSE, {}, TRUE)

\* Mutant: SetBooleanField(recv, finished, err == Z_STREAM_END) on every call.
deflateImpl_switch_WritesFlagAlways(r, obj, initialNextIn, initialNextOut) ==
    deflateSwitch(r, obj, initialNextIn, initialNextOut,
                  ZErrors, {"Z_STREAM_END"}, TRUE, {}, FALSE)

\* Mutant: "case Z_BUF_ERROR" is placed with "case Z_STREAM_END".
deflateImpl_switch_BufErrSetsFinished(r, obj, initialNextIn, initialNextOut) ==
    deflateSwitch(r, obj, initialNextIn, initialNextOut,
                  ZErrors, {"Z_STREAM_END", "Z_BUF_ERROR"}, FALSE, {}, FALSE)

\* Mutant: the default branch also writes the finished field (to false).
deflateImpl_switch_ErrorClearsFlag(r, obj, initialNextIn, initialNextOut) ==
    IF r.err \notin {"Z_OK", "Z_STREAM_END", "Z_BUF_ERROR"}
    THEN [s |-> r.s, obj |-> [obj EXCEPT !.finished = FALSE], ret |-> Sentinel,
          exc |-> throwExceptionForZlibError("java/util/zip/DataFormatException", r.err),
          err |-> r.err, wrote |-> FALSE]
    ELSE deflateSwitch(r, obj, initialNextIn, initialNextOut,
                       ZErrors, {"Z_STREAM_END"}, FALSE, {}, FALSE)

\* Mutant: inRead is assigned the bytes read by this call, not increased.
deflateImpl_switch_InReadAssigned(r, obj, initialNextIn, initialNextOut) ==
    IF r.err \notin {"Z_OK", "Z_STREAM_END", "Z_BUF_ERROR"}
    THEN [s |-> r.s, obj |-> obj, ret |-> Sentinel,
          exc |-> throwExceptionForZlibError("java/util/zip/DataFormatException", r.err),
          err |-> r.err, wrote |-> FALSE]
    ELSE LET bytesRead    == PtrDiff(r.s.next_in, initialNextIn)
             bytesWritten == PtrDiff(r.s.next_out, initialNextOut)
             obj1 == IF r.err = "Z_STREAM_END"
                     THEN [obj EXCEPT !.finished = TRUE] ELSE obj
         IN [s |-> r.s,
             obj |-> [obj1 EXCEPT !.inRead = bytesRead],
             ret |-> bytesWritten, exc |-> "none", err |-> r.err,
             wrote |-> (r.err = "Z_STREAM_END")]

\* Deflater_deflateImpl from "switch (err)" on: r is what deflate() returned
\* and left in the stream.
deflateImpl_switch(r, obj, initialNextIn, initialNextOut) ==
    IF r.err \notin {"Z_OK", "Z_STREAM_END", "Z_BUF_ERROR"}
    THEN [s |-> r.s, obj |-> obj, ret |-> Sentinel,
          exc |-> throwExceptionForZlibError("java/util/zip/DataFormatException", r.err),
          err |-> r.err, wrote |-> FALSE]
    ELSE LET bytesRead    == PtrDiff(r.s.next_in, initialNextIn)
             bytesWritten == PtrDiff(r.s.next_out, initialNextOut)
             obj1 == IF r.err = "Z_STREAM_END"
                     THEN [obj EXCEPT !.finished = TRUE] ELSE obj
         IN [s |-> r.s,
             obj |-> [obj1 EXCEPT !.inRead = @ + bytesRead],
             ret |-> bytesWritten, exc |-> "none", err |-> r.err,
             wrote |-> (r.err = "Z_STREAM_END")]

\* Deflater_deflateImpl
deflateImpl(s, obj, pinned, off, len, flush) ==
    IF ~pinned
    THEN [s |-> s, obj |-> obj, ret |-> Sentinel, exc |-> "none", err |-> "unpinned",
          wrote |-> FALSE]
    ELSE LET s0 == [s EXCEPT !.next_out = Ptr("out", off), !.avail_out = len]
             initialNextIn  == s0.next_in
             initialNextOut == s0.next_out
         IN deflateImpl_switch(deflate(s0, flush), obj, initialNextIn, initialNextOut)

\* Mutant: the call of deflateReset is missing.
resetImpl_NoReset(s) == [s |-> s, err |-> "Z_OK", exc |-> "none"]

\* Deflater_resetImpl
resetImpl(s) ==
    throwUnlessOk(deflateReset(s), "java/lang/IllegalArgumentException")

\* Deflater_endImpl: deflateEnd, then delete.
endImpl(s) == [s |-> deflateEnd(s), deleted |-> TRUE]

\* Mutant: the output binding is not cleared before deflateParams.
setLevelsImpl_KeepsOutput(s, level, strategy) ==
    throwUnlessOk(deflateParams(s, level, strategy), "java/lang/IllegalStateException")

\* Mutant: the exception class of Deflater_createStream and Deflater_resetImpl.
setLevelsImpl_WrongClass(s, level, strategy) ==
    LET s0 == [s EXCEPT !.next_out = NULL, !.avail_out = 0]
    IN throwUnlessOk(deflateParams(s0, level, strategy), "java/lang/IllegalArgumentException")

\* Deflater_setLevelsImpl
setLevelsImpl(s, level, strategy) ==
    LET s0 == [s EXCEPT !.next_out = NULL, !.avail_out = 0]
    IN throwUnlessOk(deflateParams(s0, level, strategy), "java/lang/IllegalStateException")

\* Deflater_getTotalInImpl, Deflater_getTotalOutImpl, Deflater_getAdlerImpl
\* Mutant: the wrong field of the z_stream.
getTotalInImpl_AvailIn(s) == s.avail_in

getTotalInImpl(s)  == s.total_in
getTotalOutImpl(s) == s.total_out
getAdlerImpl(s)    == s.adler

\* --------------------------------------------------------------- actions
Init ==
    /\ allocated = {}
    /\ ctx = [a \in Addrs |-> NewNativeZipStream]
    /\ recv = [a \in Addrs |-> NewDeflater]
    /\ live = {}
    /\ last = Outcome("none", 0, 0, "none", "none", "none")
    /\ consumed = [a \in Addrs |-> 0]
    /\ trueWrites = [a \in Addrs |-> 0]
    /\ ended = [a \in Addrs |-> FALSE]
    /\ returned = [a \in Addrs |-> 0]
    /\ dictBytes = [a \in Addrs |-> 0]

\* "new NativeZipStream" returns any free address; the Java object that will
\* hold the handle is fresh.
Deflater_createStream(a, level, strategy, noHeader, allocOk, maxLive) ==
    /\ a \notin allocated
    /\ Cardinality(live) < maxLive
    /\ \E r \in {createStream(a, level, strategy, noHeader, allocOk)} :
          /\ allocated' = IF r.kept THEN allocated \cup {a} ELSE allocated
          /\ ctx' = [ctx EXCEPT ![a] = r.s]
          /\ live' = IF r.ret # Sentinel THEN live \cup {r.ret} ELSE live
          /\ last' = Outcome("create", r.ret, r.ret, r.exc, r.err, "none")
    /\ recv' = [recv EXCEPT ![a] = NewDeflater]
    /\ consumed' = [consumed EXCEPT ![a] = 0]
    /\ trueWrites' = [trueWrites EXCEPT ![a] = 0]
    /\ ended' = [ended EXCEPT ![a] = FALSE]
    /\ returned' = [returned EXCEPT ![a] = 0]
    /\ dictBytes' = [dictBytes EXCEPT ![a] = 0]

Deflater_setDictionaryImpl(h, len) ==
    /\ h \in live
    /\ \E r \in {setDictionary(ctx[h], len)} :
          /\ r.err = "Z_OK" => dictBytes[h] + len <= MaxDict
          /\ ctx' = [ctx EXCEPT ![h] = r.s]
          /\ last' = Outcome("setDictionary", h, 0, r.exc, r.err, "none")
          /\ dictBytes' = [dictBytes EXCEPT ![h] = IF r.err = "Z_OK" THEN @ + len ELSE @]
    /\ UNCHANGED <<allocated, recv, live, consumed, trueWrites, ended, returned>>

\* Mutant: off and len are passed in the wrong order.
Deflater_setInputImpl_SwapsArgs(h, off, len) ==
    /\ h \in live
    /\ recv[h].inRead + len <= MaxRead
    /\ ctx' = [ctx EXCEPT ![h] = setInput(ctx[h], len, off)]
    /\ last' = Outcome("setInput", h, 0, "none", "none", "none")
    /\ UNCHANGED <<allocated, recv, live, consumed, trueWrites, ended, returned, dictBytes>>

Deflater_setInputImpl(h, off, len) ==
    /\ h \in live
    /\ recv[h].inRead + len <= MaxRead
    /\ ctx' = [ctx EXCEPT ![h] = setInput(ctx[h], off, len)]
    /\ last' = Outcome("setInput", h, 0, "none", "none", "none")
    /\ UNCHANGED <<allocated, recv, live, consumed, trueWrites, ended, returned, dictBytes>>

Deflater_deflateImpl(h, pinned, off, len, flush) ==
    /\ h \in live
    /\ ctx[h].total_out + len <= MaxTotalOut
    /\ \E r \in {deflateImpl(ctx[h], recv[h], pinned, off, len, flush)} :
          /\ ctx' = [ctx EXCEPT ![h] = r.s]
          /\ recv' = [recv EXCEPT ![h] = r.obj]
          /\ last' = Outcome("deflate", h, r.ret, r.exc, r.err,
                              IF r.err = "unpinned" THEN "none" ELSE flush)
          /\ consumed' = [consumed EXCEPT ![h] = @ + (ctx[h].avail_in - r.s.avail_in)]
          /\ trueWrites' = [trueWrites EXCEPT
                              ![h] = IF r.wrote THEN Min(@ + 1, MaxWrites) ELSE @]
          /\ ended' = [ended EXCEPT ![h] = @ \/ r.err = "Z_STREAM_END"]
          /\ returned' = [returned EXCEPT
                            ![h] = IF r.ret = Sentinel THEN @ ELSE @ + r.ret]
    /\ UNCHANGED <<allocated, live, dictBytes>>

Deflater_endImpl(h) ==
    /\ h \in live
    /\ allocated' = IF endImpl(ctx[h]).deleted THEN allocated \ {h} ELSE allocated
    /\ ctx' = [ctx EXCEPT ![h] = NewNativeZipStream]
    /\ live' = live \ {h}
    /\ last' = Outcome("end", h, 0, "none", "none", "none")
    /\ consumed' = [consumed EXCEPT ![h] = 0]
    /\ trueWrites' = [trueWrites EXCEPT ![h] = 0]
    /\ ended' = [ended EXCEPT ![h] = FALSE]
    /\ returned' = [returned EXCEPT ![h] = 0]
    /\ dictBytes' = [dictBytes EXCEPT ![h] = 0]
    /\ UNCHANGED recv

\* Mutant: reset also clears the two fields of the Java object.
Deflater_resetImpl_ClearsFields(h) ==
    /\ h \in live
    /\ \E r \in {resetImpl(ctx[h])} :
          /\ ctx' = [ctx EXCEPT ![h] = r.s]
          /\ last' = Outcome("reset", h, 0, r.exc, r.err, "none")
          /\ ended' = [ended EXCEPT ![h] = @ /\ r.err # "Z_OK"]
          /\ returned' = [returned EXCEPT ![h] = IF r.err = "Z_OK" THEN 0 ELSE @]
          /\ dictBytes' = [dictBytes EXCEPT ![h] = IF r.err = "Z_OK" THEN 0 ELSE @]
    /\ recv' = [recv EXCEPT ![h] = NewDeflater]
    /\ UNCHANGED <<allocated, live, consumed, trueWrites>>

\* Mutant: one z_stream shared by all handles, so a reset resets them all.
Deflater_resetImpl_Shared(h) ==
    /\ h \in live
    /\ \E r \in {resetImpl(ctx[h])} :
          /\ ctx' = [a \in Addrs |-> IF a \in live THEN resetImpl(ctx[a]).s ELSE ctx[a]]
          /\ last' = Outcome("reset", h, 0, r.exc, r.err, "none")
          /\ ended' = [ended EXCEPT ![h] = @ /\ r.err # "Z_OK"]
          /\ returned' = [returned EXCEPT ![h] = IF r.err = "Z_OK" THEN 0 ELSE @]
          /\ dictBytes' = [dictBytes EXCEPT ![h] = IF r.err = "Z_OK" THEN 0 ELSE @]
    /\ UNCHANGED <<allocated, recv, live, consumed, trueWrites>>

Deflater_resetImpl(h) ==
    /\ h \in live
    /\ \E r \in {resetImpl(ctx[h])} :
          /\ ctx' = [ctx EXCEPT ![h] = r.s]
          /\ last' = Outcome("reset", h, 0, r.exc, r.err, "none")
          /\ ended' = [ended EXCEPT ![h] = @ /\ r.err # "Z_OK"]
          /\ returned' = [returned EXCEPT ![h] = IF r.err = "Z_OK" THEN 0 ELSE @]
          /\ dictBytes' = [dictBytes EXCEPT ![h] = IF r.err = "Z_OK" THEN 0 ELSE @]
    /\ UNCHANGED <<allocated, recv, live, consumed, trueWrites>>

Deflater_setLevelsImpl(h, level, strategy) ==
    /\ h \in live
    /\ \E r \in {setLevelsImpl(ctx[h], level, strategy)} :
          /\ ctx' = [ctx EXCEPT ![h] = r.s]
          /\ last' = Outcome("setLevels", h, 0, r.exc, r.err, "none")
    /\ UNCHANGED <<allocated, recv, live, consumed, trueWrites, ended, returned, dictBytes>>

Deflater_getTotalInImpl(h) ==
    /\ h \in live
    /\ last' = Outcome("getTotalIn", h, getTotalInImpl(ctx[h]), "none", "none", "none")
    /\ UNCHANGED <<allocated, ctx, recv, live, consumed, trueWrites, ended, returned, dictBytes>>

\* Mutant: a read-and-clear accessor.
Deflater_getTotalOutImpl_Clears(h) ==
    /\ h \in live
    /\ last' = Outcome("getTotalOut", h, getTotalOutImpl(ctx[h]), "none", "none", "none")
    /\ ctx' = [ctx EXCEPT ![h].total_out = 0]
    /\ UNCHANGED <<allocated, recv, live, consumed, trueWrites, ended, returned, dictBytes>>

Deflater_getTotalOutImpl(h) ==
    /\ h \in live
    /\ last' = Outcome("getTotalOut", h, getTotalOutImpl(ctx[h]), "none", "none", "none")
    /\ UNCHANGED <<allocated, ctx, recv, live, consumed, trueWrites, ended, returned, dictBytes>>

Deflater_getAdlerImpl(h) ==
    /\ h \in live
    /\ last' = Outcome("getAdler", h, getAdlerImpl(ctx[h]), "none", "none", "none")
    /\ UNCHANGED <<allocated, ctx, recv, live, consumed, trueWrites, ended, returned, dictBytes>>

\* The engine's state for a live handle becomes inconsistent (zlib.h: the
\* condition under which deflateReset and deflateParams return
\* Z_STREAM_ERROR).  No handler does this; it is the fault SpecFault injects.
EngineStateInconsistent(h) ==
    /\ h \in live
    /\ ctx[h].status # "NO_STATE"
    /\ ctx' = [ctx EXCEPT ![h] = deflateEnd(ctx[h])]
    /\ last' = Outcome("fault", h, 0, "none", "none", "none")
    /\ UNCHANGED <<allocated, recv, live, consumed, trueWrites, ended, returned, dictBytes>>

\* Every call the Java layer can make, with its arguments drawn from the
\* given sets.
NextOn(addrs, maxLive, levels, hdrs, inLens, outLens, flushes) ==
    \/ \E a \in addrs, level \in levels, strategy \in Strategies,
          noHeader \in hdrs, allocOk \in BOOLEAN :
          Deflater_createStream(a, level, strategy, noHeader, allocOk, maxLive)
    \/ \E h \in addrs : Deflater_setDictionaryImpl(h, 1)
    \/ \E h \in addrs, off \in InOffs, len \in inLens :
          Deflater_setInputImpl(h, off, len)
    \/ \E h \in addrs, pinned \in BOOLEAN, off \in OutOffs, len \in outLens,
          flush \in flushes :
          Deflater_deflateImpl(h, pinned, off, len, flush)
    \/ \E h \in addrs : Deflater_endImpl(h)
    \/ \E h \in addrs : Deflater_resetImpl(h)
    \/ \E h \in addrs, level \in levels, strategy \in Strategies :
          Deflater_setLevelsImpl(h, level, strategy)
    \/ \E h \in addrs : Deflater_getTotalInImpl(h)
    \/ \E h \in addrs : Deflater_getTotalOutImpl(h)
    \/ \E h \in addrs : Deflater_getAdlerImpl(h)

\* One Deflater at a time, every flush mode, both container modes.
Next == NextOn({1}, 1, Levels, BOOLEAN, 0..MaxLen, 0..MaxOutLen, FlushModes)
Spec == Init /\ [][Next]_vars

\* Several Deflaters open at once, on short raw streams.
NextHeap ==
    NextOn(Addrs, NumAddrs, {6, 10}, {TRUE}, {HeapLen}, {HeapLen + 1}, {"Z_FINISH"})
SpecHeap == Init /\ [][NextHeap]_vars

\* One Deflater on short streams, whose engine state may become inconsistent.
NextFault ==
    \/ NextOn({1}, 1, {6, 10}, BOOLEAN, 0..HeapLen, 0..HeapLen,
              {"Z_NO_FLUSH", "Z_FINISH"})
    \/ EngineStateInconsistent(1)
SpecFault == Init /\ [][NextFault]_vars

\* One Deflater that is never reset: every call but reset, with the arguments
\* of Spec.
NextNoReset ==
    \/ \E level \in Levels, strategy \in Strategies, noHeader \in BOOLEAN,
          allocOk \in BOOLEAN :
          Deflater_createStream(1, level, strategy, noHeader, allocOk, 1)
    \/ Deflater_setDictionaryImpl(1, 1)
    \/ \E off \in InOffs, len \in 0..MaxLen : Deflater_setInputImpl(1, off, len)
    \/ \E pinned \in BOOLEAN, off \in OutOffs, len \in 0..MaxOutLen,
          flush \in FlushModes :
          Deflater_deflateImpl(1, pinned, off, len, flush)
    \/ \E level \in Levels, strategy \in Strategies :
          Deflater_setLevelsImpl(1, level, strategy)
    \/ Deflater_endImpl(1)
    \/ Deflater_getTotalInImpl(1)
    \/ Deflater_getTotalOutImpl(1)
    \/ Deflater_getAdlerImpl(1)
SpecNoReset == Init /\ [][NextNoReset]_vars

\* ================================================================ claims
Live(h) == h \in live

\* The call that made the current state was op on handle h.
Did(op, h) == last.op = op /\ last.handle = h

\* C1: every context allocated by a successful create stays allocated until
\* its end call and is released by that call only; at every point the set of
\* allocated contexts is the set of handles returned by successful create
\* calls and not yet ended.
C1_ExactlyOnceOwnership ==
    /\ [](allocated = live)
    /\ [][\A a \in Addrs :
            /\ (a \in allocated /\ a \notin allocated')
                   => (last'.op = "end" /\ last'.handle = a /\ a \in live)
            /\ (a \notin allocated /\ a \in allocated')
                   => (last'.op = "create" /\ last'.ret = a)]_vars

\* Two streams were open, one was ended, the other is still allocated.
C1_Witness ==
    /\ last.op = "end"
    /\ last.handle \notin allocated
    /\ allocated # {}
    /\ \E h \in allocated : ctx[h].total_in > 0

\* C2: create returns -1 iff it failed; an engine rejection raises
\* IllegalArgumentException, returns -1 and leaves the set of allocated
\* contexts as it was; on success the handle is not -1 and it is the one
\* context the call added.
C2_CreateSentinel ==
    [][last'.op = "create" =>
         /\ (last'.ret = Sentinel) <=> (last'.exc # "none")
         /\ (last'.ret = Sentinel) <=> (last'.err # "Z_OK")
         /\ last'.err \notin {"Z_OK", "none"}
               => /\ last'.exc = "java/lang/IllegalArgumentException"
                  /\ last'.ret = Sentinel
         /\ last'.ret = Sentinel => allocated' = allocated
         /\ last'.ret # Sentinel
               => /\ last'.ret \notin allocated
                  /\ allocated' = allocated \cup {last'.ret}
                  /\ ctx'[last'.ret].status # "NO_STATE"]_vars

\* A create was rejected by the engine while another stream was open.
C2_Witness ==
    /\ last.op = "create"
    /\ last.err = "Z_STREAM_ERROR"
    /\ last.ret = Sentinel
    /\ Cardinality(allocated) = 1

\* C3: deflate maps Z_OK and Z_BUF_ERROR to the bytes produced by the call
\* with the finished flag unchanged, Z_STREAM_END to the bytes produced with
\* the flag set, and every other engine status to DataFormatException and -1.
C3_DeflateOutcomes ==
    [][\A h \in Addrs :
         (last'.op = "deflate" /\ last'.handle = h /\ last'.err # "unpinned") =>
            LET produced == ctx'[h].total_out - ctx[h].total_out
            IN /\ last'.err \in {"Z_OK", "Z_BUF_ERROR"}
                     => /\ last'.ret = produced
                        /\ last'.exc = "none"
                        /\ recv'[h].finished = recv[h].finished
               /\ last'.err = "Z_STREAM_END"
                     => /\ last'.ret = produced
                        /\ last'.exc = "none"
                        /\ recv'[h].finished
               /\ last'.err \notin {"Z_OK", "Z_BUF_ERROR", "Z_STREAM_END"}
                     => /\ last'.ret = Sentinel
                        /\ last'.exc = "java/util/zip/DataFormatException"]_vars

\* The engine refused a deflate call (a flush other than finish once the
\* stream has entered its finish state) and the adapter returned -1.
C3_Witness ==
    /\ last.op = "deflate"
    /\ last.err = "Z_STREAM_ERROR"
    /\ last.ret = Sentinel
    /\ last.exc = "java/util/zip/DataFormatException"

\* C4: the caller-visible inRead counter is its value at construction (0)
\* plus the sum, over the deflate calls made so far, of the input bytes the
\* engine consumed in each call.
C4_InReadIsSumOfDeltas ==
    \A h \in Addrs : Live(h) => recv[h].inRead = consumed[h]

\* Several deflate calls have consumed input, the last of them in a call that
\* completed the stream.
C4_Witness ==
    \E h \in Addrs :
        /\ Did("deflate", h)
        /\ last.err = "Z_STREAM_END"
        /\ recv[h].inRead = MaxRead
        /\ ctx[h].total_in < recv[h].inRead
        /\ ctx[h].total_in > 0

\* C5: the finished flag of a new stream is false, and it goes from false to
\* true only in a deflate call with finish-flush after which no bound input
\* is left unconsumed.
C5_FinishedOnlyByFinish ==
    /\ [](\A h \in Addrs : (last.op = "create" /\ last.ret = h) => ~recv[h].finished)
    /\ [][\A h \in Addrs :
            (~recv[h].finished /\ recv'[h].finished)
               => /\ last'.op = "deflate"
                  /\ last'.handle = h
                  /\ last'.flush = "Z_FINISH"
                  /\ ctx'[h].avail_in = 0]_vars

\* One finish-flush deflate consumed the bound input, produced the whole
\* stream and set the flag.
C5_Witness ==
    \E h \in Addrs :
        /\ Did("deflate", h)
        /\ last.flush = "Z_FINISH"
        /\ last.err = "Z_STREAM_END"
        /\ last.ret = ctx[h].total_out
        /\ recv[h].finished
        /\ trueWrites[h] = 1
        /\ ctx[h].total_in > 0
        /\ recv[h].inRead = ctx[h].total_in

\* C6 as stated: once the finished flag is true and no reset intervened,
\* every further deflate call, whatever its flush mode, returns 0 and raises
\* nothing.  (Calls whose output buffer cannot be pinned are left out.)
C6_Original ==
    [][\A h \in Addrs :
         (/\ recv[h].finished /\ ended[h]
          /\ last'.op = "deflate" /\ last'.handle = h /\ last'.err # "unpinned")
            => (last'.ret = 0 /\ last'.exc = "none")]_vars

\* C6 amended: once the finished flag is true and no reset intervened, a
\* further deflate call with finish-flush returns 0 and raises nothing, with
\* or without newly bound input and whatever the output length; a further
\* call with any other flush mode is refused by the engine: it raises
\* DataFormatException and returns -1.  Neither consumes or produces bytes.
C6_AfterFinished ==
    [][\A h \in Addrs :
         (/\ recv[h].finished /\ ended[h]
          /\ last'.op = "deflate" /\ last'.handle = h /\ last'.err # "unpinned")
            => /\ last'.flush = "Z_FINISH"
                     => /\ last'.ret = 0
                        /\ last'.exc = "none"
                        /\ last'.err \in {"Z_STREAM_END", "Z_BUF_ERROR"}
               /\ last'.flush # "Z_FINISH"
                     => /\ last'.ret = Sentinel
                        /\ last'.exc = "java/util/zip/DataFormatException"
               /\ ctx'[h].total_in = ctx[h].total_in
               /\ ctx'[h].total_out = ctx[h].total_out]_vars

\* After completion, input was bound again and finish-flush deflate was
\* called: no bytes, no error.
C6_Witness ==
    \E h \in Addrs :
        /\ Did("deflate", h)
        /\ recv[h].finished /\ ended[h]
        /\ last.flush = "Z_FINISH"
        /\ last.err = "Z_BUF_ERROR"
        /\ last.ret = 0
        /\ ctx[h].avail_in > 0
        /\ ctx[h].avail_out > 0

\* C7 as stated: at most one deflate call of a stream's lifetime performs
\* the write of true to the finished field.
C7_Original == \A h \in Addrs : trueWrites[h] <= 1

\* C7 amended: while the stream is open the finished flag never goes back
\* from true to false, so it becomes true at most once; the write of true is
\* performed by every deflate call in which the engine reports Z_STREAM_END,
\* and by no other call.
C7_FlagRisesOnce ==
    [][\A h \in Addrs :
         (h \in live /\ h \in live') =>
            /\ recv[h].finished => recv'[h].finished
            /\ trueWrites'[h] # trueWrites[h]
                  => /\ last'.op = "deflate" /\ last'.handle = h
                     /\ last'.err = "Z_STREAM_END"
                     /\ recv'[h].finished
            /\ (/\ last'.op = "deflate" /\ last'.handle = h
                /\ last'.err = "Z_STREAM_END" /\ trueWrites[h] < MaxWrites)
                  => trueWrites'[h] = trueWrites[h] + 1]_vars

\* A finish-flush deflate repeated after completion wrote true a second time.
C7_Witness ==
    \E h \in Addrs :
        /\ Did("deflate", h)
        /\ last.err = "Z_STREAM_END"
        /\ last.ret = 0
        /\ trueWrites[h] = 2
        /\ recv[h].finished

\* C8: from one call to the next, with no reset in between, the values of
\* getTotalIn and getTotalOut never decrease.
C8_TotalsMonotone ==
    [][\A h \in Addrs :
         (h \in live /\ h \in live' /\ last'.op # "reset") =>
            /\ getTotalInImpl(ctx'[h]) >= getTotalInImpl(ctx[h])
            /\ getTotalOutImpl(ctx'[h]) >= getTotalOutImpl(ctx[h])]_vars

\* A deflate call that left input unconsumed was followed by one that
\* consumed it: both totals have grown.
C8_Witness ==
    \E h \in Addrs :
        /\ Did("deflate", h)
        /\ getTotalInImpl(ctx[h]) = MaxRead
        /\ getTotalOutImpl(ctx[h]) > getTotalInImpl(ctx[h])
        /\ ctx[h].avail_in = 0

\* What the engine keeps of a stream besides the caller's two bindings.
EngineView(s) ==
    [s EXCEPT !.next_in = NULL, !.avail_in = 0, !.next_out = NULL, !.avail_out = 0]

\* C9: a successful reset leaves getTotalIn and getTotalOut at 0 and getAdler
\* at the value it has after create; the context is neither released nor
\* reallocated; level, strategy and the header mode are unchanged; the engine
\* is in the state a create with that configuration leaves it in, so that
\* setInput and finish-flush deflate complete the stream again.
C9_ResetIsCreatedEquivalent ==
    [][\A h \in Addrs :
         (h \in live /\ last'.op = "reset" /\ last'.handle = h /\ last'.exc = "none") =>
            LET fresh == createStream(h, ctx[h].level, ctx[h].strategy,
                                      ctx[h].wrap = 0, TRUE).s
            IN /\ getTotalInImpl(ctx'[h]) = 0
               /\ getTotalOutImpl(ctx'[h]) = 0
               /\ getAdlerImpl(ctx'[h]) = getAdlerImpl(fresh)
               /\ allocated' = allocated /\ live' = live /\ h \in allocated'
               /\ ctx'[h].level = ctx[h].level
               /\ ctx'[h].strategy = ctx[h].strategy
               /\ (ctx'[h].wrap = 0) <=> (ctx[h].wrap = 0)
               /\ EngineView(ctx'[h]) = EngineView(fresh)]_vars

\* A finished stream that had consumed input was reset.
C9_Witness ==
    \E h \in Addrs :
        /\ Did("reset", h)
        /\ last.exc = "none"
        /\ recv[h].finished
        /\ recv[h].inRead = MaxRead
        /\ ctx[h].level = 0
        /\ ctx[h].wrap = 1
        /\ getTotalInImpl(ctx[h]) = 0

\* C10 as stated: a reset the engine rejects raises IllegalStateException,
\* the kind setLevels raises on rejection, not the kind create raises.
C10_ResetRejectedIsInvalidState ==
    (last.op = "reset" /\ last.err # "Z_OK")
        => last.exc = "java/lang/IllegalStateException"

\* The step is the deflate call on handle h whose output buffer was pinned,
\* made with these arguments.
DeflateCall(h, off, len, flush) ==
    /\ last'.op = "deflate" /\ last'.handle = h /\ last'.flush = flush
    /\ Deflater_deflateImpl(h, TRUE, off, len, flush)

\* C11 as stated: between two adapter calls the output cursor of a live
\* stream never refers to a caller's output buffer.
C11_Original == \A h \in Addrs : Live(h) => ctx[h].next_out.base # "out"

\* C11 amended: the output cursor is left where the last deflate call put it,
\* but no engine call uses a binding made by an earlier call: deflate binds
\* the region of its own arguments before it runs the engine and all output
\* of the call lies in that region, setLevels runs the engine on the null,
\* zero-length region, and no other call produces output or moves the
\* output binding.  The input binding changes only in setInput and deflate.
C11_OutputBoundPerCall ==
    [][\A h \in Addrs : (h \in live /\ h \in live') =>
         /\ \A off \in OutOffs, len \in 0..MaxOutLen, flush \in FlushModes :
               DeflateCall(h, off, len, flush) =>
                  LET written == PtrDiff(ctx'[h].next_out, Ptr("out", off))
                  IN /\ ctx'[h].next_out.base = "out"
                     /\ written >= 0
                     /\ ctx'[h].avail_out = len - written
                     /\ ctx'[h].avail_out >= 0
                     /\ ctx'[h].total_out - ctx[h].total_out = written
         /\ (last'.op = "setLevels" /\ last'.handle = h) =>
               /\ ctx'[h].next_out = NULL
               /\ ctx'[h].avail_out = 0
               /\ ctx'[h].total_out = ctx[h].total_out
         /\ ~(last'.handle = h /\ last'.op \in {"deflate", "setLevels"}) =>
               /\ ctx'[h].next_out = ctx[h].next_out
               /\ ctx'[h].avail_out = ctx[h].avail_out
               /\ ctx'[h].total_out <= ctx[h].total_out
         /\ ~(last'.handle = h /\ last'.op \in {"deflate", "setInput"}) =>
               /\ ctx'[h].next_in = ctx[h].next_in
               /\ ctx'[h].avail_in = ctx[h].avail_in]_vars

\* A deflate call has returned, another call was made since, and the output
\* cursor still points into the buffer of that deflate call, with room left.
C11_Witness ==
    \E h \in Addrs :
        /\ Did("setInput", h)
        /\ ctx[h].next_out.base = "out"
        /\ ctx[h].avail_out > 0
        /\ ctx[h].total_out > 0

\* What later setInput, deflate, reset and end calls depend on: the stream
\* without its level, strategy and output binding.
UsableView(s) ==
    [s EXCEPT !.level = 0, !.strategy = 0, !.next_out = NULL, !.avail_out = 0]

\* C12: after setLevels the output binding is the null, zero-length region
\* and the call produced no output; setLevels raises IllegalStateException
\* exactly when the engine rejects the change and nothing else; the context
\* stays allocated and the handle live; after a rejection the engine state,
\* the input binding, the totals and the two Java fields are what they were,
\* so the stream is as usable as before the call.
C12_SetLevelsRejected ==
    [][\A h \in Addrs :
         (h \in live /\ last'.op = "setLevels" /\ last'.handle = h) =>
            /\ ctx'[h].next_out = NULL
            /\ ctx'[h].avail_out = 0
            /\ ctx'[h].total_out = ctx[h].total_out
            /\ (last'.err # "Z_OK") <=> (last'.exc = "java/lang/IllegalStateException")
            /\ (last'.err = "Z_OK") <=> (last'.exc = "none")
            /\ allocated' = allocated /\ live' = live
            /\ last'.err # "Z_OK" =>
                  /\ UsableView(ctx'[h]) = UsableView(ctx[h])
                  /\ ctx'[h].status # "NO_STATE"
                  /\ recv'[h] = recv[h]]_vars

\* The engine rejected a change made in mid-stream, with input still bound
\* and block data buffered.
C12_Witness ==
    \E h \in Addrs :
        /\ Did("setLevels", h)
        /\ last.err = "Z_STREAM_ERROR"
        /\ last.exc = "java/lang/IllegalStateException"
        /\ ctx[h].total_in > 0
        /\ ctx[h].avail_in > 0
        /\ ctx[h].held > 0

\* C13 as stated: a deflate call with a zero-length output region while
\* bound input is unconsumed returns 0, raises nothing and leaves the
\* finished flag as it was.
C13_Original ==
    [][\A h \in Addrs, off \in OutOffs, flush \in FlushModes :
         (h \in live /\ ctx[h].avail_in > 0 /\ DeflateCall(h, off, 0, flush)) =>
            /\ last'.ret = 0
            /\ last'.exc = "none"
            /\ recv'[h].finished = recv[h].finished]_vars

\* C13 amended: such a call returns 0 with the engine's "no progress" status
\* and raises nothing, unless the engine is already finishing the stream (an
\* earlier finish-flush deflate closed the last block) and the flush mode of
\* the call is not finish-flush: then the engine refuses the call, which
\* raises DataFormatException and returns -1.  Either way the finished flag,
\* the bytes-consumed counter, the input binding and the totals are unchanged.
C13_ZeroLengthOutput ==
    [][\A h \in Addrs, off \in OutOffs, flush \in FlushModes :
         (h \in live /\ ctx[h].avail_in > 0 /\ DeflateCall(h, off, 0, flush)) =>
            /\ (ctx[h].status = "FINISH_STATE" /\ flush # "Z_FINISH") =>
                  /\ last'.ret = Sentinel
                  /\ last'.err = "Z_STREAM_ERROR"
                  /\ last'.exc = "java/util/zip/DataFormatException"
            /\ ~(ctx[h].status = "FINISH_STATE" /\ flush # "Z_FINISH") =>
                  /\ last'.ret = 0
                  /\ last'.err = "Z_BUF_ERROR"
                  /\ last'.exc = "none"
            /\ recv'[h] = recv[h]
            /\ ctx'[h].avail_in = ctx[h].avail_in
            /\ ctx'[h].next_in = ctx[h].next_in
            /\ ctx'[h].total_in = ctx[h].total_in
            /\ ctx'[h].total_out = ctx[h].total_out]_vars

\* A deflate call on a zero-length region, with input bound and block data
\* buffered, made no progress and returned 0.
C13_Witness ==
    \E h \in Addrs, off \in OutOffs :
        /\ Did("deflate", h)
        /\ last.err = "Z_BUF_ERROR"
        /\ last.ret = 0
        /\ ctx[h].next_out = Ptr("out", off)
        /\ ctx[h].avail_out = 0
        /\ ctx[h].avail_in > 0
        /\ ctx[h].held > 0
        /\ ~recv[h].finished

Accessors == {"getTotalIn", "getTotalOut", "getAdler"}

\* C14: getTotalIn, getTotalOut and getAdler return the engine's total_in,
\* total_out and adler and change nothing: not the engine context, not the
\* bindings, not the two Java fields, not the heap; so an accessor called
\* again right after itself returns the same value.
C14_AccessorsPure ==
    [][\A h \in Addrs :
         (h \in live /\ last'.op \in Accessors /\ last'.handle = h) =>
            /\ ctx' = ctx /\ recv' = recv
            /\ allocated' = allocated /\ live' = live
            /\ last'.exc = "none"
            /\ last'.op = "getTotalIn"  => last'.ret = ctx[h].total_in
            /\ last'.op = "getTotalOut" => last'.ret = ctx[h].total_out
            /\ last'.op = "getAdler"    => last'.ret = ctx[h].adler
            /\ (last.op = last'.op /\ last.handle = h) => last'.ret = last.ret]_vars

\* The checksum of a header-bearing stream was read after input was
\* compressed; it is neither its initial value nor one of the totals.
C14_Witness ==
    \E h \in Addrs :
        /\ Did("getAdler", h)
        /\ recv[h].inRead > 0
        /\ last.ret = ctx[h].adler
        /\ last.ret > 1
        /\ last.ret # ctx[h].total_out

\* C15: a call on one handle, whether it succeeds or fails, leaves every
\* other live handle as it was: its engine context and bindings, its totals,
\* its two Java fields, and its place on the heap.  Calls are the steps of the
\* model, so this covers every interleaving of the calls on two handles.
C15_HandlesIndependent ==
    [][\A b \in Addrs :
         (b \in live /\ last'.handle # b) =>
            /\ ctx'[b] = ctx[b]
            /\ recv'[b] = recv[b]
            /\ consumed'[b] = consumed[b]
            /\ returned'[b] = returned[b]
            /\ dictBytes'[b] = dictBytes[b]
            /\ b \in live' /\ b \in allocated']_vars

\* One stream was reset while another, which had completed its stream, was
\* live.
C15_Witness ==
    \E a \in Addrs, b \in Addrs :
        /\ a # b
        /\ Did("reset", a)
        /\ Live(b)
        /\ recv[b].finished
        /\ ctx[b].total_in > 0
        /\ ctx[a].total_in = 0
        /\ recv[a].inRead > 0

\* C16: setInput leaves the remaining-input count at the given length and
\* the input cursor at the start of the given slice, whatever was bound
\* before, and changes nothing else: the totals, the checksum, the engine's
\* buffered data, the output binding, the finished flag and the
\* bytes-consumed counter are as before the call.
C16_SetInputFrame ==
    [][\A h \in Addrs, off \in InOffs, len \in 0..MaxLen :
         (/\ h \in live /\ last'.op = "setInput" /\ last'.handle = h
          /\ Deflater_setInputImpl(h, off, len)) =>
            /\ ctx'[h].avail_in = len
            /\ ctx'[h].next_in = Ptr("in", off)
            /\ ctx'[h] = [ctx[h] EXCEPT !.avail_in = len, !.next_in = Ptr("in", off)]
            /\ getTotalInImpl(ctx'[h]) = getTotalInImpl(ctx[h])
            /\ getTotalOutImpl(ctx'[h]) = getTotalOutImpl(ctx[h])
            /\ recv'[h] = recv[h]
            /\ last'.exc = "none"]_vars

\* Input was bound in mid-stream: earlier input is consumed and partly still
\* buffered by the engine, and an output cursor from a deflate call is set.
C16_Witness ==
    \E h \in Addrs, off \in InOffs :
        /\ Did("setInput", h)
        /\ ctx[h].next_in = Ptr("in", off)
        /\ ctx[h].avail_in > 0
        /\ ctx[h].total_in > 0
        /\ ctx[h].held > 0
        /\ recv[h].inRead = ctx[h].total_in

\* C17: a deflate call returns -1 exactly when the output buffer could not
\* be pinned or the engine's status is none of Z_OK, Z_STREAM_END and
\* Z_BUF_ERROR, and such a call leaves the finished flag and the
\* bytes-consumed counter as they were; every other deflate call returns a
\* value from 0 to the output length it was given.
C17_SentinelIsNotACount ==
    [][\A h \in Addrs :
         (h \in live /\ last'.op = "deflate" /\ last'.handle = h) =>
            /\ (last'.ret = Sentinel)
                  <=> (last'.err \notin {"Z_OK", "Z_STREAM_END", "Z_BUF_ERROR"})
            /\ last'.ret = Sentinel => recv'[h] = recv[h]
            /\ \A off \in OutOffs, len \in 0..MaxOutLen, flush \in FlushModes :
                  (DeflateCall(h, off, len, flush) /\ last'.ret # Sentinel)
                     => (0 <= last'.ret /\ last'.ret <= len)]_vars

\* The engine refused a deflate call on a stream that had consumed input
\* and was finished; the call returned -1 and both fields kept their values.
C17_Witness ==
    \E h \in Addrs :
        /\ Did("deflate", h)
        /\ last.ret = Sentinel
        /\ last.err = "Z_STREAM_ERROR"
        /\ recv[h].finished
        /\ recv[h].inRead = MaxRead

\* C18: on a stream that was never reset, after any calls of setInput,
\* setLevels and deflate (failing ones too), the values deflate returned add
\* up to getTotalOut and the bytes-consumed counter equals getTotalIn.  The
\* claim's sequences hold no setDictionary call; getTotalIn also counts the
\* bytes of every dictionary the engine accepted, which the counter does not.
C18_NoMisreporting ==
    \A h \in Addrs :
        Live(h) => /\ returned[h] = getTotalOutImpl(ctx[h])
                   /\ dictBytes[h] = 0 => recv[h].inRead = getTotalInImpl(ctx[h])
                   /\ recv[h].inRead + dictBytes[h] = getTotalInImpl(ctx[h])

\* Several deflate calls returned bytes and consumed all the input fed; the
\* last of them completed the stream.  No dictionary was set.
C18_Witness ==
    \E h \in Addrs :
        /\ Did("deflate", h)
        /\ last.err = "Z_STREAM_END"
        /\ last.ret > 0
        /\ returned[h] > last.ret
        /\ recv[h].inRead = MaxRead
        /\ ctx[h].level = 0
        /\ dictBytes[h] = 0

FieldSilent == {"reset", "setLevels", "setInput", "setDictionary", "end"}

\* C19: reset, setLevels, setInput, setDictionary and end leave the finished
\* flag and the bytes-consumed counter of the Java object as they were, also
\* a reset that returns getTotalIn to 0; and no call on an open stream turns
\* the flag from true to false or decreases the counter.
C19_FieldsNotWritten ==
    [][\A h \in Addrs : h \in live =>
         /\ (last'.handle = h /\ last'.op \in FieldSilent) => recv'[h] = recv[h]
         /\ (last'.handle = h /\ last'.op = "reset" /\ last'.exc = "none")
               => getTotalInImpl(ctx'[h]) = 0
         /\ h \in live' =>
               /\ recv[h].finished => recv'[h].finished
               /\ recv'[h].inRead >= recv[h].inRead]_vars

\* A finished raw stream was reset: the flag is still true and the counter
\* still holds the bytes consumed before the reset, while getTotalIn is 0.
C19_Witness ==
    \E h \in Addrs :
        /\ Did("reset", h)
        /\ last.exc = "none"
        /\ ctx[h].wrap = 0
        /\ recv[h].finished
        /\ recv[h].inRead > getTotalInImpl(ctx[h])
        /\ getTotalInImpl(ctx[h]) = 0
        /\ getTotalOutImpl(ctx[h]) = 0

====
